---- MODULE Spec2Model ----
(***************************************************************************)
(* Model of the retrieval-augmented answering pipeline:                    *)
(*   - the LangGraph workflow of src/src/graph.py (Spec),                  *)
(*   - ResearcherAgent.execute of src/src/agents/researcher_agent.py       *)
(*     (SpecResearch),                                                     *)
(*   - Reranker.rerank of src/src/tools/reranker.py (SpecRerank).          *)
(* Scores are fixed-point numbers in units of 1/10000 (ONE = 1.0).         *)
(***************************************************************************)
EXTENDS Integers, Sequences, FiniteSets, TLC

VARIABLES
    pc,            \* the node the workflow runs next, END or "raised"
    state,         \* AgentState: the dict LangGraph threads through the nodes
    executeParams, \* parameters ResearcherAgent.execute declares after self
    raisedBy,      \* "none", or the exception that ended the run
    hist,          \* nodes executed so far, in order
    planCtx,       \* the context argument of every planner.execute call
    evalLog,       \* per Evaluate execution: the answer judged, the model's
                   \* response, the result, iteration before and after, the route
    synthLog,      \* the answer of every Synthesize execution
    profile,       \* per query text, the score profile of the index for it
    sub_queries,   \* researcher.execute: its argument
    qi,            \* researcher.execute: index of the sub-query being researched
    si,            \* researcher.execute: index of the source being searched
    sub_query_results, \* researcher.execute: results of the current sub-query
    all_results,   \* researcher.execute: results so far, returned at the end
    pools,         \* the pools selected so far: sub-query, source, chunks, fallback
    rrCandidates,  \* rerank: the candidate list passed
    rrTopK,        \* rerank: the top_k passed
    rerankResp,    \* rerank: what the model answered
    rerankOut,     \* rerank: what the call gave back
    agCall,        \* an agent's execute called on its own: the agent and its arguments
    agResp,        \* that call: what the model answered
    agOut,         \* that call: what it gave back
    chatMessages,  \* chat_completion: the messages passed
    attempt,       \* chat_completion: the loop variable
    tries,         \* chat_completion: the outcome of every generate_content call
    sleeps,        \* chat_completion: the seconds of every time.sleep call
    chatOut,       \* chat_completion: what the call gave back
    srQuery,       \* search: the query passed
    srTopK,        \* search: the top_k passed
    srFilter,      \* search: the source_filter passed
    srOut,         \* search: what the call gave back
    biasIn,        \* bias adjustment: the reranked pool passed
    biasOut        \* bias adjustment: the pool after adjustment and score sync

wfvars == <<state, executeParams, hist, planCtx, evalLog, synthLog>>
resvars == <<profile, sub_queries, qi, si, sub_query_results, all_results, pools>>
rrvars == <<rrCandidates, rrTopK, rerankResp, rerankOut>>
agvars == <<agCall, agResp, agOut>>
chatvars == <<chatMessages, attempt, tries, sleeps, chatOut>>
srvars == <<srQuery, srTopK, srFilter, srOut>>
biasvars == <<biasIn, biasOut>>
auxvars == <<agvars, chatvars, srvars, biasvars>>
vars == <<pc, raisedBy, wfvars, resvars, rrvars, auxvars>>

----------------------------------------------------------------------------
(* Python dict helpers *)

\* dict.get(k, default)
Get(d, k, default) == IF k \in DOMAIN d THEN d[k] ELSE default

\* d[k] = v
Put(d, k, v) == [x \in (DOMAIN d) \cup {k} |-> IF x = k THEN v ELSE d[x]]

\* LangGraph merges a node's partial update into the state key by key
Merge(d, upd) ==
    [x \in (DOMAIN d) \cup (DOMAIN upd) |-> IF x \in DOMAIN upd THEN upd[x] ELSE d[x]]

\* Python None
None == "None"

RECURSIVE Count(_, _)
Count(s, x) ==
    IF s = <<>> THEN 0
    ELSE (IF Head(s) = x THEN 1 ELSE 0) + Count(Tail(s), x)

Last(s) == s[Len(s)]

\* what a call gives back: a value, or an exception
Ret(v) == [raised |-> FALSE, value |-> v]
Raise(e) == [raised |-> TRUE, exc |-> e]

\* 1.0 in score units
ONE == 10000

----------------------------------------------------------------------------
(* The generation service (client.chat_completion) and extract_json.       *)
(* A response either raises (connectivity, exhausted rate limit), or is a  *)
(* text that extract_json cannot parse, or a text holding a JSON value.    *)

SvcRaise == [kind |-> "raise"]
Unparseable == [kind |-> "text", parse |-> "error"]
JsonDict(d) == [kind |-> "text", parse |-> "ok", t |-> "dict", dict |-> d]
JsonList(l) == [kind |-> "text", parse |-> "ok", t |-> "list", list |-> l]
PlainText(s) == [kind |-> "text", parse |-> "error", text |-> s]

\* extract_json(response): the JSON value, or ValueError / JSONDecodeError
extract_json(resp) ==
    IF resp.parse # "ok" THEN Raise("ValueError")
    ELSE IF resp.t = "dict" THEN Ret([t |-> "dict", v |-> resp.dict])
    ELSE Ret([t |-> "list", v |-> resp.list])

----------------------------------------------------------------------------
(* Inputs *)

Queries == {"q1", "q2"}
SubQueryTexts == {"sa", "sb"}
Answers == {"ans1", "ans2"}

OrchestratorFallback ==
    [type |-> "general", complexity |-> "complex", workflow |-> "standard_research"]

OrchestratorResponses ==
    { SvcRaise, Unparseable,
      JsonDict([type |-> "financial", complexity |-> "complex",
                workflow |-> "standard_research"]) }

PlannerResponses ==
    { SvcRaise, Unparseable,
      JsonDict([sub_queries |-> <<"sa", "sb">>]),
      JsonDict([sub_queries |-> <<"sa">>]),
      JsonDict([sub_queries |-> <<>>]),
      JsonList(<<"sb">>),
      JsonList(<<"sa", "sb">>),
      JsonDict([queries |-> <<"sa">>]) }

EvaluatorDefault ==
    [decision |-> "approve",
     reason |-> "Evaluation failed, defaulting to approval.",
     hallucination_score |-> 0]

EvaluatorResponses ==
    { SvcRaise, Unparseable,
      JsonDict([decision |-> "approve", reason |-> "grounded",
                confidence |-> 9000, hallucination_score |-> 1000]),
      JsonDict([decision |-> "reject", reason |-> "r1",
                confidence |-> 8000, hallucination_score |-> 9000]),
      JsonDict([decision |-> "reject", reason |-> "r2",
                confidence |-> 7000, hallucination_score |-> 9500]),
      JsonDict([reason |-> "no decision given"]),
      JsonList(<<"approve">>) }

SynthesiserResponses == {SvcRaise} \cup {PlainText(a) : a \in Answers}

----------------------------------------------------------------------------
(* Agents called by the workflow *)

\* OrchestratorAgent.execute(user_query)
OrchestratorExecute(user_query, resp) ==
    IF resp.kind = "raise" THEN Raise("service")
    ELSE LET j == extract_json(resp) IN
         IF j.raised THEN Ret(OrchestratorFallback) ELSE Ret(j.value.v)

\* the texts interpolated into the planner's prompt
PlannerPrompt(user_query, context) == {user_query}

\* mutant: no fallback, the parse error or the unexpected format propagates
PlannerExecute_no_fallback(user_query, context, resp) ==
    IF resp.kind = "raise" THEN Raise("service")
    ELSE LET j == extract_json(resp) IN
         IF j.raised THEN Raise(j.exc)
         ELSE IF j.value.t = "dict" /\ "sub_queries" \in DOMAIN j.value.v
              THEN Ret(j.value.v["sub_queries"])
         ELSE IF j.value.t = "list" THEN Ret(j.value.v)
         ELSE Raise("KeyError")

\* PlannerAgent.execute(user_query, context)
PlannerExecute(user_query, context, resp) ==
    IF resp.kind = "raise" THEN Raise("service")
    ELSE LET j == extract_json(resp) IN
         IF j.raised THEN Ret(<<user_query>>)
         ELSE IF j.value.t = "dict" /\ "sub_queries" \in DOMAIN j.value.v
              THEN Ret(j.value.v["sub_queries"])
         ELSE IF j.value.t = "list" THEN Ret(j.value.v)
         ELSE Ret(<<user_query>>)

\* mutant: the except branch returns the parsed-nothing result as a reject
EvaluatorExecute_default_reject(query, answer, sources, resp) ==
    IF resp.kind = "raise" THEN Raise("service")
    ELSE LET j == extract_json(resp) IN
         IF j.raised \/ j.value.t # "dict"
         THEN Ret([decision |-> "reject",
                   reason |-> "Evaluation failed, defaulting to approval.",
                   hallucination_score |-> 0])
         ELSE Ret(j.value.v)

\* EvaluatorAgent.execute(query, answer, sources)
EvaluatorExecute(query, answer, sources, resp) ==
    IF resp.kind = "raise" THEN Raise("service")
    ELSE LET j == extract_json(resp) IN
         IF j.raised THEN Ret(EvaluatorDefault)
         \* result.get on a list raises AttributeError inside the try
         ELSE IF j.value.t # "dict" THEN Ret(EvaluatorDefault)
         ELSE Ret(j.value.v)

----------------------------------------------------------------------------
(* The indexed corpus: HybridSearchEngine.chunks, loaded once at start-up  *)

\* number of chunks in the index
NumChunks == 3

ChunkIds == 1..NumChunks

Sources == <<"sec", "sec", "news", "wikipedia">>
Companies == <<"A", "B">>

\* payload data_source_type / company_name of point i
SourceOf(i) == Sources[((i - 1) % Len(Sources)) + 1]
CompanyOf(i) == Companies[((i - 1) % Len(Companies)) + 1]

\* one entry of self.chunks (metadata flattened to the keys the pipeline reads)
CorpusChunk(i) ==
    [id |-> i, chunk_id |-> i, raw_chunk |-> i,
     source |-> SourceOf(i), company |-> CompanyOf(i)]

----------------------------------------------------------------------------
(* SynthesiserAgent *)

NoInfoAnswer == "I couldn't find relevant information to answer your query."

\* the key _extract_sources de-duplicates on
SourceKey(chunk) == <<Get(chunk, "company", None), Get(chunk, "source", None)>>

RECURSIVE ExtractSourcesFrom(_, _)
ExtractSourcesFrom(chunks, seen) ==
    IF chunks = <<>> THEN <<>>
    ELSE LET c == Head(chunks) IN
         IF SourceKey(c) \in seen THEN ExtractSourcesFrom(Tail(chunks), seen)
         ELSE <<[company |-> Get(c, "company", None),
                 source_type |-> Get(c, "source", None),
                 content |-> Get(c, "raw_chunk", "")]>>
              \o ExtractSourcesFrom(Tail(chunks), seen \cup {SourceKey(c)})

\* SynthesiserAgent._extract_sources(chunks)
extract_sources(chunks) == ExtractSourcesFrom(chunks, {})

\* mutant: the model is called before the evidence is looked at
SynthesiserExecute_calls_first(query, chunks, resp) ==
    IF resp.kind = "raise"
    THEN [raised |-> TRUE, exc |-> "service", model_calls |-> 1]
    ELSE IF chunks = <<>>
    THEN [raised |-> FALSE, model_calls |-> 1,
          value |-> [answer |-> NoInfoAnswer, sources |-> <<>>, confidence |-> 0]]
    ELSE [raised |-> FALSE, model_calls |-> 1,
          value |-> [answer |-> resp.text, sources |-> extract_sources(chunks)]]

\* SynthesiserAgent.execute(query, chunks); model_calls counts the
\* chat_completion calls made
SynthesiserExecute(query, chunks, resp) ==
    IF chunks = <<>>
    THEN [raised |-> FALSE, model_calls |-> 0,
          value |-> [answer |-> NoInfoAnswer, sources |-> <<>>, confidence |-> 0]]
    ELSE IF resp.kind = "raise"
    THEN [raised |-> TRUE, exc |-> "service", model_calls |-> 1]
    ELSE [raised |-> FALSE, model_calls |-> 1,
          value |-> [answer |-> resp.text, sources |-> extract_sources(chunks)]]

----------------------------------------------------------------------------
(* HybridSearchEngine.search                                               *)

\* SEARCH_CONFIG["alpha"] = 0.7, in tenths
AlphaTenths == 7

\* SEARCH_CONFIG["initial_k"], SEARCH_CONFIG["final_k"]
InitialK == 50
FinalK == 5

\* raw scores the vector index and BM25 give a chunk for a query text:
\* a profile number per query text selects them from these tables
SemVals == <<8000, 2000, 5000>>
BmVals == <<0, 6, 3, 6>>
NumProfiles == 2
Sem(prof, q, i) == SemVals[((i + prof[q]) % Len(SemVals)) + 1]
Bm(prof, q, i) == BmVals[((i * prof[q]) % Len(BmVals)) + 1]

SetMax(S) == CHOOSE x \in S : \A y \in S : y <= x
SetMin(S) == CHOOSE x \in S : \A y \in S : x <= y
Range(f) == {f[x] : x \in DOMAIN f}
Min2(a, b) == IF a <= b THEN a ELSE b

\* scores taken relative to the maximum alone
normalize_by_max(scores) ==
    IF Len(scores) = 0 THEN <<>>
    ELSE LET min_s == SetMin(Range(scores))
             max_s == SetMax(Range(scores))
         IN IF max_s = min_s THEN [i \in DOMAIN scores |-> ONE \div 2]
            ELSE [i \in DOMAIN scores |-> (scores[i] * ONE) \div max_s]

\* normalize(scores), the min-max normalisation nested in search
normalize(scores) ==
    IF Len(scores) = 0 THEN <<>>
    ELSE LET min_s == SetMin(Range(scores))
             max_s == SetMax(Range(scores))
         IN IF max_s = min_s THEN [i \in DOMAIN scores |-> ONE \div 2]
            ELSE [i \in DOMAIN scores |->
                     ((scores[i] - min_s) * ONE) \div (max_s - min_s)]

\* list.sort(key=..., reverse=True): stable, descending
RECURSIVE InsertDesc(_, _, _)
InsertDesc(sorted, x, key) ==
    IF sorted = <<>> THEN <<x>>
    ELSE IF Head(sorted)[key] >= x[key]
         THEN <<Head(sorted)>> \o InsertDesc(Tail(sorted), x, key)
         ELSE <<x>> \o sorted

RECURSIVE SortDescBy(_, _)
SortDescBy(list, key) ==
    IF list = <<>> THEN <<>>
    ELSE InsertDesc(SortDescBy(SubSeq(list, 1, Len(list) - 1), key), Last(list), key)

\* list[:k] for k >= 0
Take(list, k) == SubSeq(list, 1, Min2(k, Len(list)))

\* mutant: the loop over the chunks does not apply the filter
RECURSIVE FilteredIds_unfiltered(_, _)
FilteredIds_unfiltered(i, source_filter) ==
    IF i > NumChunks THEN <<>>
    ELSE <<i>> \o FilteredIds_unfiltered(i + 1, source_filter)

\* the chunks of the index that pass the source filter, in index order
RECURSIVE FilteredIds(_, _)
FilteredIds(i, source_filter) ==
    IF i > NumChunks THEN <<>>
    ELSE (IF source_filter # None /\ SourceOf(i) # source_filter THEN <<>> ELSE <<i>>)
         \o FilteredIds(i + 1, source_filter)

\* the semantic score relative to the best semantic score of the results
SemNorm(sem_score, max_sem) ==
    IF max_sem > 0 THEN (sem_score * ONE) \div max_sem ELSE 0

\* the weights of the fusion exchanged
Fuse_swapped(sem_score_norm, kw_score_norm) ==
    ((10 - AlphaTenths) * sem_score_norm + AlphaTenths * kw_score_norm) \div 10

\* final_score = alpha * sem_score_norm + (1 - alpha) * kw_score_norm
Fuse(sem_score_norm, kw_score_norm) ==
    (AlphaTenths * sem_score_norm + (10 - AlphaTenths) * kw_score_norm) \div 10

\* the per-chunk scores search computes before sorting, by chunk id
SearchScores(prof, query, source_filter) ==
    LET ids == FilteredIds(1, source_filter)
        \* the vector index returns every point that passes the filter
        sem_scores == [i \in Range(ids) |-> Sem(prof, query, i)]
        all_bm25_norm == normalize([i \in ChunkIds |-> Bm(prof, query, i)])
        max_sem == IF Range(ids) # {} THEN SetMax(Range(sem_scores)) ELSE ONE
    IN [i \in Range(ids) |->
          [sem_score |-> sem_scores[i],
           sem_score_norm |-> SemNorm(sem_scores[i], max_sem),
           kw_score |-> Bm(prof, query, i),
           kw_score_norm |-> all_bm25_norm[i],
           final_score |-> Fuse(SemNorm(sem_scores[i], max_sem),
                                all_bm25_norm[i])]]

\* HybridSearchEngine.search(query, top_k, source_filter)
Search(prof, query, top_k, source_filter) ==
    LET ids == FilteredIds(1, source_filter)
        scores == SearchScores(prof, query, source_filter)
        combined == [k \in DOMAIN ids |->
                        Put(CorpusChunk(ids[k]), "final_score",
                            scores[ids[k]].final_score)]
    IN Take(SortDescBy(combined, "final_score"), top_k)

----------------------------------------------------------------------------
(* Reranker.rerank                                                         *)

\* the score step per rank position, 0.01
RankStep == 100

\* longest ranked_indices list a response carries
MaxRanked == 2

RECURSIVE SeqsUpTo(_, _)
SeqsUpTo(S, n) ==
    IF n = 0 THEN {<<>>}
    ELSE LET shorter == SeqsUpTo(S, n - 1)
         IN shorter \cup {Append(q, x) : q \in {t \in shorter : Len(t) = n - 1}, x \in S}

\* a "ranked_indices" value: integers, then possibly an element that is not one
RankedValues(n) ==
    [ints : SeqsUpTo(-1..n, MaxRanked), then_non_int : BOOLEAN]

\* what the model can answer to a ranking prompt over n snippets
RerankResponses(n) ==
    { SvcRaise, Unparseable, JsonList(<<0>>), JsonDict([indices |-> <<0>>]) }
    \cup { JsonDict([ranked_indices |-> r]) : r \in RankedValues(n) }

\* the loop over ranked_indices (step 5): candidate dicts are shared objects,
\* so a score assigned later shows in every place the candidate was appended
RECURSIVE RankLoop(_, _, _, _, _)
RankLoop(ints, n, order, seen, score) ==
    IF ints = <<>> THEN [order |-> order, seen |-> seen, score |-> score]
    ELSE LET idx == Head(ints) IN
         IF 0 <= idx /\ idx < n
         THEN RankLoop(Tail(ints), n, Append(order, idx), seen \cup {idx},
                       Put(score, idx, ONE - Cardinality(seen) * RankStep))
         ELSE RankLoop(Tail(ints), n, order, seen, score)

\* indices 0..n-1 not in seen, ascending
RECURSIVE MissingFrom(_, _, _)
MissingFrom(i, n, seen) ==
    IF i >= n THEN <<>>
    ELSE (IF i \in seen THEN <<>> ELSE <<i>>) \o MissingFrom(i + 1, n, seen)

\* candidates with the scores assigned so far written into them
Scored(candidates, score) ==
    [k \in DOMAIN candidates |->
        IF (k - 1) \in DOMAIN score
        THEN Put(candidates[k], "rerank_score", score[k - 1])
        ELSE candidates[k]]

\* the body of the try block (steps 3 to 5): the list returned, or the
\* exception raised together with the candidates as mutated until then
RerankTry(query, candidates, top_k, resp) ==
    IF resp.kind = "raise" THEN [raised |-> TRUE, candidates |-> candidates]
    ELSE LET j == extract_json(resp) IN
    IF j.raised THEN [raised |-> TRUE, candidates |-> candidates]
    \* result.get on a list raises AttributeError
    ELSE IF j.value.t # "dict" THEN [raised |-> TRUE, candidates |-> candidates]
    ELSE LET n == Len(candidates)
             ranked == Get(j.value.v, "ranked_indices",
                           [ints |-> <<>>, then_non_int |-> FALSE])
             loop == RankLoop(ranked.ints, n, <<>>, {}, <<>>)
         IN IF ranked.then_non_int
            \* comparing or indexing with a non-integer raises TypeError
            THEN [raised |-> TRUE, candidates |-> Scored(candidates, loop.score)]
            ELSE LET missing == MissingFrom(0, n, loop.seen)
                     order == loop.order \o missing
                     score == [i \in loop.seen \cup Range(missing) |->
                                  IF i \in loop.seen THEN loop.score[i] ELSE 0]
                     mutated == Scored(candidates, score)
                     reranked_candidates ==
                         [k \in DOMAIN order |-> mutated[order[k] + 1]]
                 IN Ret(Take(reranked_candidates, top_k))

\* mutant: the fallback returns the candidates without cutting to top_k
Rerank_untruncated(query, candidates, top_k, resp) ==
    IF candidates = <<>> THEN [raised |-> FALSE, value |-> <<>>, model_calls |-> 0]
    ELSE LET body == RerankTry(query, candidates, top_k, resp) IN
         [raised |-> FALSE,
          value |-> IF body.raised THEN body.candidates ELSE body.value,
          model_calls |-> 1]

\* Reranker.rerank(query, candidates, top_k); model_calls counts the
\* chat_completion calls made
Rerank(query, candidates, top_k, resp) ==
    IF candidates = <<>> THEN [raised |-> FALSE, value |-> <<>>, model_calls |-> 0]
    ELSE LET body == RerankTry(query, candidates, top_k, resp) IN
         [raised |-> FALSE,
          value |-> IF body.raised THEN Take(body.candidates, top_k) ELSE body.value,
          model_calls |-> 1]

----------------------------------------------------------------------------
(* BiasMitigator.adjust_scores_by_metadata (bias adjustment of one pool)   *)

\* BIAS_CONFIG: min_score_threshold 0.4, boost_factor 1.05 (in percent)
BiasThreshold == 4000
BoostPercent == 105

RECURSIVE SumScores(_)
SumScores(list) ==
    IF list = <<>> THEN 0 ELSE Head(list)["final_score"] + SumScores(Tail(list))

GroupOf(c) == Get(c, "company", None)

GroupMembers(list, g) == SelectSeq(list, LAMBDA c : GroupOf(c) = g)

\* the group's current average score is below the threshold
UnderThreshold(list, g) ==
    /\ g # None
    /\ SumScores(GroupMembers(list, g)) < BiasThreshold * Len(GroupMembers(list, g))

\* the boost without the cap
Boosted_uncapped(score) == (score * BoostPercent) \div 100

\* score * boost_factor, capped at 1.0
Boosted(score) == Min2((score * BoostPercent) \div 100, ONE)

adjust_scores_by_metadata(list) ==
    [k \in DOMAIN list |->
        IF UnderThreshold(list, GroupOf(list[k]))
        THEN Put(Put(list[k], "final_score", Boosted(list[k]["final_score"])),
                 "bias_boosted", TRUE)
        ELSE list[k]]

----------------------------------------------------------------------------
(* ResearcherAgent.execute                                                 *)

target_sources == <<"sec", "news", "wikipedia">>

\* min_score_threshold = -5.0 and max_chunks_per_source = 10
MinScoreThreshold == -50000
MaxChunksPerSource == 10

\* lines 60-63: a boosted candidate's rerank_score is set to its final_score
SyncBoosted(list) ==
    [k \in DOMAIN list |->
        IF Get(list[k], "bias_boosted", FALSE) /\ "final_score" \in DOMAIN list[k]
        THEN Put(list[k], "rerank_score", list[k]["final_score"])
        ELSE list[k]]

\* lines 65-72: the candidates above the threshold, else the best one;
\* c['rerank_score'] raises KeyError on a candidate that has none
SelectByScore(reranked) ==
    IF \E k \in DOMAIN reranked : "rerank_score" \notin DOMAIN reranked[k]
    THEN Raise("KeyError")
    ELSE LET selected ==
                 SelectSeq(reranked, LAMBDA c : c["rerank_score"] > MinScoreThreshold)
         IN IF selected = <<>> /\ reranked # <<>>
            THEN Ret(<<SortDescBy(reranked, "rerank_score")[1]>>)
            ELSE Ret(selected)

\* lines 47-81: one (sub-query, source) pool, from search to the selected chunks
ResearchPool(prof, query, source, resp) ==
    LET candidates == Search(prof, query, InitialK, source) IN
    IF candidates = <<>> THEN Ret(<<>>)
    ELSE LET reranked == Rerank(query, candidates, MaxChunksPerSource, resp) IN
         IF reranked.raised THEN reranked
         ELSE LET sel == SelectByScore(SyncBoosted(adjust_scores_by_metadata(reranked.value)))
              IN IF sel.raised THEN sel
                 ELSE Ret([k \in DOMAIN sel.value |-> Put(sel.value[k], "sub_query", query)])

\* the kept results collected in reverse
RECURSIVE DedupeFrom_prepend(_, _)
DedupeFrom_prepend(results, seen_ids) ==
    IF results = <<>> THEN <<>>
    ELSE LET res == Head(results) IN
         IF res["chunk_id"] \in seen_ids
         THEN DedupeFrom_prepend(Tail(results), seen_ids)
         ELSE DedupeFrom_prepend(Tail(results), seen_ids \cup {res["chunk_id"]})
              \o <<res>>

\* lines 88-94: keep the first result of every chunk_id
RECURSIVE DedupeFrom(_, _)
DedupeFrom(results, seen_ids) ==
    IF results = <<>> THEN <<>>
    ELSE LET res == Head(results) IN
         IF res["chunk_id"] \in seen_ids THEN DedupeFrom(Tail(results), seen_ids)
         ELSE <<res>> \o DedupeFrom(Tail(results), seen_ids \cup {res["chunk_id"]})

DedupeByChunkId(results) == DedupeFrom(results, {})

----------------------------------------------------------------------------
(* The workflow of graph.py                                                *)

END == "__end__"

QueryTexts == Queries \cup SubQueryTexts

\* parameters after self: of execute as researcher_agent.py declares it, and
\* of the execute that graph.py and test/check_researcher_chunks.py call
ExecuteParamsDeclared == 1
ExecuteParamsCalled == 2

\* researcher.execute(sub_queries, original_query), the two-parameter form:
\* the deduplicated evidence for the query, cut to the final evidence size
ResearcherExecute2(prof, subqs, original_query, n) ==
    LET hits == Search(prof, original_query, InitialK, None)
        evidence == Take(DedupeByChunkId(hits), Min2(n, FinalK))
    IN [k \in DOMAIN evidence |->
           Put(Put(evidence[k], "rerank_score", ONE - (k - 1) * RankStep),
               "sub_query", IF subqs = <<>> THEN original_query ELSE subqs[1])]

\* the counter started at one
run_orchestrator_update_from_one(st, result) ==
    [classification |-> result, iteration |-> 1,
     timing |-> Get(st, "timing", {}) \cup {"orchestrator"},
     token_usage |-> Get(st, "token_usage", {}) \cup {"orchestrator"}]

\* the partial state update each node returns
run_orchestrator_update(st, result) ==
    [classification |-> result, iteration |-> 0,
     timing |-> Get(st, "timing", {}) \cup {"orchestrator"},
     token_usage |-> Get(st, "token_usage", {}) \cup {"orchestrator"}]

run_planner_update(st, subqs) ==
    [sub_queries |-> subqs,
     timing |-> Get(st, "timing", {}) \cup {"planner"},
     token_usage |-> Get(st, "token_usage", {}) \cup {"planner"}]

run_researcher_update(st, chunks) ==
    [research_data |-> chunks,
     timing |-> Get(st, "timing", {}) \cup {"researcher"},
     token_usage |-> Get(st, "token_usage", {}) \cup {"researcher"}]

\* mutant: the answer of an earlier iteration is kept
run_synthesiser_update_keeps_answer(st, result) ==
    [answer |-> Get(st, "answer", result["answer"]), sources |-> result["sources"],
     timing |-> Get(st, "timing", {}) \cup {"synthesiser"},
     token_usage |-> Get(st, "token_usage", {}) \cup {"synthesiser"}]

run_synthesiser_update(st, result) ==
    [answer |-> result["answer"], sources |-> result["sources"],
     timing |-> Get(st, "timing", {}) \cup {"synthesiser"},
     token_usage |-> Get(st, "token_usage", {}) \cup {"synthesiser"}]

\* mutant: iteration is incremented only when the run goes back to Plan
run_evaluator_update_increment_on_loop(st, result) ==
    [evaluation |-> result,
     confidence |-> Get(result, "confidence", ONE \div 2),
     hallucination_score |-> Get(result, "hallucination_score", 0),
     iteration |-> IF Get(result, "decision", "approve") = "reject" /\ st["iteration"] < 2
                   THEN st["iteration"] + 1 ELSE st["iteration"],
     timing |-> Get(st, "timing", {}) \cup {"evaluator"},
     token_usage |-> Get(st, "token_usage", {}) \cup {"evaluator"}]

run_evaluator_update(st, result) ==
    [evaluation |-> result,
     confidence |-> Get(result, "confidence", ONE \div 2),
     hallucination_score |-> Get(result, "hallucination_score", 0),
     iteration |-> st["iteration"] + 1,
     timing |-> Get(st, "timing", {}) \cup {"evaluator"},
     token_usage |-> Get(st, "token_usage", {}) \cup {"evaluator"}]

\* mutant: the cap is off by one
decide_next_step_cap3(st) ==
    LET decision == Get(st["evaluation"], "decision", "approve")
        iteration == st["iteration"]
    IN IF decision = "reject" /\ iteration < 3 THEN "planner" ELSE END

\* mutant: no cap on the retries
decide_next_step_nocap(st) ==
    LET decision == Get(st["evaluation"], "decision", "approve")
    IN IF decision = "reject" THEN "planner" ELSE END

\* mutant: a rejection goes back to the researcher, skipping the planner
decide_next_step_to_researcher(st) ==
    LET decision == Get(st["evaluation"], "decision", "approve")
        iteration == st["iteration"]
    IN IF decision = "reject" /\ iteration < 2 THEN "researcher" ELSE END

\* the conditional edge after the evaluator
decide_next_step(st) ==
    LET decision == Get(st["evaluation"], "decision", "approve")
        iteration == st["iteration"]
    IN IF decision = "reject" /\ iteration < 2 THEN "planner" ELSE END

\* an exception propagates out of app.invoke
Abort(node, exc) ==
    /\ pc' = "raised"
    /\ raisedBy' = exc
    /\ hist' = Append(hist, node)
    /\ UNCHANGED state

Advance(node, update, next) ==
    /\ state' = Merge(state, update)
    /\ pc' = next
    /\ hist' = Append(hist, node)
    /\ UNCHANGED raisedBy

run_orchestrator ==
    /\ pc = "orchestrator"
    /\ \E resp \in OrchestratorResponses :
         LET r == OrchestratorExecute(state["query"], resp) IN
         IF r.raised THEN Abort("orchestrator", r.exc)
         ELSE Advance("orchestrator", run_orchestrator_update(state, r.value), "planner")
    /\ UNCHANGED <<executeParams, planCtx, evalLog, synthLog, resvars, rrvars, auxvars>>

run_planner ==
    /\ pc = "planner"
    /\ LET context == Get(state, "feedback", "") IN
       /\ planCtx' = Append(planCtx, context)
       /\ \E resp \in PlannerResponses :
            LET r == PlannerExecute(state["query"], context, resp) IN
            IF r.raised THEN Abort("planner", r.exc)
            ELSE Advance("planner", run_planner_update(state, r.value), "researcher")
    /\ UNCHANGED <<executeParams, evalLog, synthLog, resvars, rrvars, auxvars>>

run_researcher ==
    /\ pc = "researcher"
    /\ IF executeParams # ExecuteParamsCalled
       \* execute() takes 2 positional arguments but 3 were given
       THEN Abort("researcher", "TypeError")
       ELSE \E n \in 0..NumChunks :
              Advance("researcher",
                      run_researcher_update(state,
                          ResearcherExecute2(profile, state["sub_queries"],
                                             state["query"], n)),
                      "synthesiser")
    /\ UNCHANGED <<executeParams, planCtx, evalLog, synthLog, resvars, rrvars, auxvars>>

run_synthesiser ==
    /\ pc = "synthesiser"
    /\ \E resp \in SynthesiserResponses :
         LET r == SynthesiserExecute(state["query"], state["research_data"], resp) IN
         IF r.raised THEN Abort("synthesiser", r.exc) /\ UNCHANGED synthLog
         ELSE /\ Advance("synthesiser", run_synthesiser_update(state, r.value), "evaluator")
              /\ synthLog' = Append(synthLog, r.value["answer"])
    /\ UNCHANGED <<executeParams, planCtx, evalLog, resvars, rrvars, auxvars>>

run_evaluator ==
    /\ pc = "evaluator"
    /\ \E resp \in EvaluatorResponses :
         LET r == EvaluatorExecute(state["query"], state["answer"], state["sources"], resp) IN
         IF r.raised THEN Abort("evaluator", r.exc) /\ UNCHANGED evalLog
         ELSE LET new == Merge(state, run_evaluator_update(state, r.value)) IN
              /\ Advance("evaluator", run_evaluator_update(state, r.value),
                         decide_next_step(new))
              /\ evalLog' = Append(evalLog,
                     [answer |-> state["answer"], resp |-> resp, result |-> r.value,
                      iter_before |-> state["iteration"],
                      iter_after |-> new["iteration"],
                      next |-> decide_next_step(new)])
    /\ UNCHANGED <<executeParams, planCtx, synthLog, resvars, rrvars, auxvars>>

\* no agent, chat_completion or search call of its own is under way
AgIdle ==
    /\ agCall = [agent |-> "none"]
    /\ agResp = SvcRaise
    /\ agOut = Ret(<<>>)

ChatIdle ==
    /\ chatMessages = <<>>
    /\ attempt = 0
    /\ tries = <<>>
    /\ sleeps = <<>>
    /\ chatOut = Ret("")

SrIdle ==
    /\ srQuery = "sa"
    /\ srTopK = 0
    /\ srFilter = None
    /\ srOut = <<>>

BiasIdle ==
    /\ biasIn = <<>>
    /\ biasOut = <<>>

AuxIdle == AgIdle /\ ChatIdle /\ SrIdle /\ BiasIdle

\* app.invoke({"query": q}) with the researcher bound at import
Init ==
    /\ pc = "orchestrator"
    /\ state \in {[query |-> q] : q \in Queries}
    /\ executeParams \in {ExecuteParamsDeclared, ExecuteParamsCalled}
    /\ raisedBy = "none"
    /\ hist = <<>>
    /\ planCtx = <<>>
    /\ evalLog = <<>>
    /\ synthLog = <<>>
    /\ profile = [q \in QueryTexts |-> 1]
    /\ sub_queries = <<>>
    /\ qi = 0
    /\ si = 0
    /\ sub_query_results = <<>>
    /\ all_results = <<>>
    /\ pools = <<>>
    /\ rrCandidates = <<>>
    /\ rrTopK = 0
    /\ rerankResp = SvcRaise
    /\ rerankOut = [raised |-> FALSE, value |-> <<>>, model_calls |-> 0]
    /\ AuxIdle

Next ==
    \/ run_orchestrator
    \/ run_planner
    \/ run_researcher
    \/ run_synthesiser
    \/ run_evaluator

Spec == Init /\ [][Next]_vars

----------------------------------------------------------------------------
(* Properties of the workflow                                              *)

Terminal == {END, "raised"}

IsReject(e) == Get(e.result, "decision", "approve") = "reject"

\* times the reject -> planner edge was taken
LoopBacks == Cardinality({i \in DOMAIN evalLog : evalLog[i].next = "planner"})

C4_OnlyServiceFailuresRaise ==
    pc = "raised" => raisedBy = "service"

StageEdges ==
    { <<"orchestrator", "planner">>, <<"planner", "researcher">>,
      <<"researcher", "synthesiser">>, <<"synthesiser", "evaluator">>,
      <<"evaluator", "planner">> }

----------------------------------------------------------------------------
(* ResearcherAgent.execute(sub_queries), one step per (sub-query, source)  *)
(* pool: each pool holds one call of the ranking model                     *)

\* longest sub-query list researched
MaxSubQueries == 2

\* the rerank call of this pool fell back to the input order
FellBack(query, cands, resp) ==
    cands # <<>> /\ RerankTry(query, cands, MaxChunksPerSource, resp).raised

\* search_engine.search as execute calls it: its result, or the exception of
\* the embedding call or of the vector index (only AttributeError is caught)
SearchOutcomes(prof, query, top_k, source_filter) ==
    {Ret(Search(prof, query, top_k, source_filter)), Raise("ConnectionError")}

execute_pool ==
    /\ pc = "research"
    /\ qi <= Len(sub_queries)
    /\ LET query == sub_queries[qi]
           source == target_sources[si]
           cands == Search(profile, query, InitialK, source)
       IN \E found \in SearchOutcomes(profile, query, InitialK, source) :
          IF found.raised
          THEN \* lines 47-51 are in no try: the exception leaves execute
               /\ pc' = "raised"
               /\ raisedBy' = found.exc
               /\ UNCHANGED <<qi, si, sub_query_results, all_results, pools>>
          ELSE
          \E resp \in (IF cands = <<>> THEN {SvcRaise} ELSE RerankResponses(Len(cands))) :
            LET r == ResearchPool(profile, query, source, resp) IN
            IF r.raised
            THEN /\ pc' = "raised"
                 /\ raisedBy' = r.exc
                 /\ pools' = Append(pools, [sub_query |-> query, source |-> source,
                                            selected |-> <<>>,
                                            fallback |-> FellBack(query, cands, resp)])
                 /\ UNCHANGED <<qi, si, sub_query_results, all_results>>
            ELSE /\ pools' = IF cands = <<>> THEN pools
                             ELSE Append(pools, [sub_query |-> query, source |-> source,
                                                 selected |-> r.value,
                                                 fallback |-> FellBack(query, cands, resp)])
                 /\ UNCHANGED <<pc, raisedBy>>
                 /\ IF si < Len(target_sources)
                    THEN /\ si' = si + 1
                         /\ sub_query_results' = sub_query_results \o r.value
                         /\ UNCHANGED <<qi, all_results>>
                    ELSE \* lines 88-102: end of the sub-query
                         /\ all_results' = all_results
                                \o DedupeByChunkId(sub_query_results \o r.value)
                         /\ sub_query_results' = <<>>
                         /\ si' = 1
                         /\ qi' = qi + 1
    /\ UNCHANGED <<wfvars, profile, sub_queries, rrvars, auxvars>>

\* lines 104-105: return all_results
execute_return ==
    /\ pc = "research"
    /\ qi > Len(sub_queries)
    /\ pc' = "returned"
    /\ UNCHANGED <<raisedBy, wfvars, resvars, rrvars, auxvars>>

InitResearch ==
    /\ pc = "research"
    /\ sub_queries \in SeqsUpTo(SubQueryTexts, MaxSubQueries)
    /\ profile \in {[q \in QueryTexts |-> IF q = "sb" THEN p ELSE 1] : p \in 1..NumProfiles}
    /\ qi = 1
    /\ si = 1
    /\ sub_query_results = <<>>
    /\ all_results = <<>>
    /\ pools = <<>>
    /\ raisedBy = "none"
    /\ state = [query |-> "q1"]
    /\ executeParams = ExecuteParamsDeclared
    /\ hist = <<>>
    /\ planCtx = <<>>
    /\ evalLog = <<>>
    /\ synthLog = <<>>
    /\ rrCandidates = <<>>
    /\ rrTopK = 0
    /\ rerankResp = SvcRaise
    /\ rerankOut = [raised |-> FALSE, value |-> <<>>, model_calls |-> 0]
    /\ AuxIdle

NextResearch ==
    \/ execute_pool
    \/ execute_return

SpecResearch == InitResearch /\ [][NextResearch]_vars

----------------------------------------------------------------------------
(* Reranker.rerank called on its own                                       *)

\* largest top_k passed
MaxTopK == 2

rerank_call ==
    /\ pc = "rerank"
    /\ \E resp \in RerankResponses(Len(rrCandidates)) :
         /\ rerankResp' = resp
         /\ rerankOut' = Rerank("sa", rrCandidates, rrTopK, resp)
    /\ pc' = "reranked"
    /\ UNCHANGED <<raisedBy, wfvars, resvars, rrCandidates, rrTopK, auxvars>>

InitRerank ==
    /\ pc = "rerank"
    /\ profile \in {[q \in QueryTexts |-> p] : p \in 1..NumProfiles}
    /\ rrCandidates \in {Search(profile, "sa", n, None) : n \in 0..NumChunks}
    /\ rrTopK \in 0..MaxTopK
    /\ rerankResp = SvcRaise
    /\ rerankOut = [raised |-> FALSE, value |-> <<>>, model_calls |-> 0]
    /\ raisedBy = "none"
    /\ state = [query |-> "q1"]
    /\ executeParams = ExecuteParamsDeclared
    /\ hist = <<>>
    /\ planCtx = <<>>
    /\ evalLog = <<>>
    /\ synthLog = <<>>
    /\ sub_queries = <<>>
    /\ qi = 0
    /\ si = 0
    /\ sub_query_results = <<>>
    /\ all_results = <<>>
    /\ pools = <<>>
    /\ AuxIdle

NextRerank == rerank_call

SpecRerank == InitRerank /\ [][NextRerank]_vars

----------------------------------------------------------------------------
(* Properties of researcher.execute and rerank                             *)

Without(d, k) == [x \in (DOMAIN d) \ {k} |-> d[x]]

NoDuplicateIds(list) ==
    \A i, j \in DOMAIN list : i # j => list[i]["chunk_id"] # list[j]["chunk_id"]

\* every selected chunk of every pool merged in this run
RECURSIVE PoolEntries(_)
PoolEntries(ps) ==
    IF ps = <<>> THEN <<>> ELSE Head(ps).selected \o PoolEntries(Tail(ps))

WithId(list, id) == SelectSeq(list, LAMBDA c : c["chunk_id"] = id)

\* C6 as stated: the evidence list execute returns never holds two fragments
\* with the same chunk_id, here for sub-queries that differ from each other.
C6_NoDuplicateFragments ==
    (pc = "returned" /\ Cardinality(Range(sub_queries)) = Len(sub_queries))
        => NoDuplicateIds(all_results)

\* C7 as stated: a fragment id that the merged pools hold more than once,
\* with different scores, has exactly one entry in the evidence, the instance
\* with the highest score, with that instance's sub-query.
C7_KeepsHighestScore ==
    pc = "returned" =>
        \A id \in ChunkIds :
            LET inst == WithId(PoolEntries(pools), id)
                kept == WithId(all_results, id)
            IN (\E a, b \in DOMAIN inst : inst[a]["final_score"] # inst[b]["final_score"])
               => /\ Len(kept) = 1
                  /\ \A a \in DOMAIN inst : inst[a]["final_score"] <= kept[1]["final_score"]
                  /\ \E a \in DOMAIN inst :
                        /\ inst[a]["final_score"] = kept[1]["final_score"]
                        /\ inst[a]["sub_query"] = kept[1]["sub_query"]

\* C8 as stated: the evidence list execute returns holds at most final_k
\* fragments.
C8_EvidenceCapped ==
    pc = "returned" => Len(all_results) <= FinalK

\* the response cannot be turned into a ranked index list
NotRankable(resp) ==
    \/ resp.kind = "raise"
    \/ resp.parse = "error"
    \/ resp.t = "list"
    \/ "ranked_indices" \notin DOMAIN resp.dict
    \/ resp.dict["ranked_indices"].then_non_int

\* C9: rerank never raises; when the model call raises or its response holds
\* no ranked index list, it returns the first top_k input candidates in input
\* order (at most a rerank_score written into them); with no candidates it
\* returns the empty list and does not call the model.
C9_RerankFallsBack ==
    pc = "reranked" =>
        /\ ~rerankOut.raised
        /\ rrCandidates = <<>> => (rerankOut.value = <<>> /\ rerankOut.model_calls = 0)
        /\ (rrCandidates # <<>> /\ NotRankable(rerankResp)) =>
             /\ Len(rerankOut.value) = Min2(rrTopK, Len(rrCandidates))
             /\ \A k \in DOMAIN rerankOut.value :
                   Without(rerankOut.value[k], "rerank_score") = rrCandidates[k]

C9_Witness ==
    /\ pc = "reranked"
    /\ rerankResp.kind = "raise"
    /\ rrTopK > 0
    /\ Len(rrCandidates) > rrTopK
    /\ Len(rerankOut.value) = rrTopK

\* C10 as stated: when the reranker fell back to the input order for a pool,
\* execute does not abort.
C10_FallbackDoesNotAbort ==
    (pools # <<>> /\ Last(pools).fallback) => ~(pc = "raised" /\ raisedBy = "KeyError")

\* C15 as stated: a search that raises for one (sub-query, source) pair is
\* treated as an empty pool; it does not abort execute.
C15_SearchFailureTolerated ==
    pc = "raised" => raisedBy # "ConnectionError"

----------------------------------------------------------------------------
(* PlannerAgent.execute and SynthesiserAgent.execute called on their own   *)

WfIdle ==
    /\ state = [query |-> "q1"]
    /\ executeParams = ExecuteParamsDeclared
    /\ hist = <<>>
    /\ planCtx = <<>>
    /\ evalLog = <<>>
    /\ synthLog = <<>>

ResIdle ==
    /\ sub_queries = <<>>
    /\ qi = 0
    /\ si = 0
    /\ sub_query_results = <<>>
    /\ all_results = <<>>
    /\ pools = <<>>

RrIdle ==
    /\ rrCandidates = <<>>
    /\ rrTopK = 0
    /\ rerankResp = SvcRaise
    /\ rerankOut = [raised |-> FALSE, value |-> <<>>, model_calls |-> 0]

\* the context a replan passes: empty, or the reason of a rejection
Contexts == {"", "r1", "r2"}

PlannerCalls ==
    {[agent |-> "planner", user_query |-> q, context |-> c] :
        q \in Queries, c \in Contexts}

\* evidence lists as the retrieval yields them
EvidenceLists ==
    {Search([q \in QueryTexts |-> p], "sa", n, f) :
        p \in 1..NumProfiles, n \in 0..NumChunks, f \in {None, "sec", "news"}}

SynthesiserCalls ==
    {[agent |-> "synthesiser", query |-> q, chunks |-> ch] :
        q \in Queries, ch \in EvidenceLists}

planner_call ==
    /\ pc = "call"
    /\ agCall.agent = "planner"
    /\ \E resp \in PlannerResponses :
         /\ agResp' = resp
         /\ agOut' = [prompt |-> PlannerPrompt(agCall.user_query, agCall.context),
                      result |-> PlannerExecute(agCall.user_query, agCall.context, resp)]
    /\ pc' = "called"
    /\ UNCHANGED <<raisedBy, wfvars, resvars, rrvars, agCall, chatvars, srvars, biasvars>>

synthesiser_call ==
    /\ pc = "call"
    /\ agCall.agent = "synthesiser"
    /\ \E resp \in SynthesiserResponses :
         /\ agResp' = resp
         /\ agOut' = [result |-> SynthesiserExecute(agCall.query, agCall.chunks, resp)]
    /\ pc' = "called"
    /\ UNCHANGED <<raisedBy, wfvars, resvars, rrvars, agCall, chatvars, srvars, biasvars>>

InitAgents ==
    /\ pc = "call"
    /\ agCall \in PlannerCalls \cup SynthesiserCalls
    /\ agResp = SvcRaise
    /\ agOut = Ret(<<>>)
    /\ raisedBy = "none"
    /\ profile = [q \in QueryTexts |-> 1]
    /\ WfIdle /\ ResIdle /\ RrIdle /\ ChatIdle /\ SrIdle /\ BiasIdle

NextAgents == planner_call \/ synthesiser_call

SpecAgents == InitAgents /\ [][NextAgents]_vars

PlannerCalled == pc = "called" /\ agCall.agent = "planner"
SynthesiserCalled == pc = "called" /\ agCall.agent = "synthesiser"

\* C12: when the planner's model output cannot be parsed as JSON, or parses
\* to an object without a sub_queries key, execute returns the one-element
\* list holding the original query and does not raise.
C12_PlannerFallsBack ==
    (/\ PlannerCalled
     /\ agResp.kind = "text"
     /\ \/ agResp.parse = "error"
        \/ (agResp.t = "dict" /\ "sub_queries" \notin DOMAIN agResp.dict))
        => agOut.result = Ret(<<agCall.user_query>>)

C12_Witness ==
    /\ PlannerCalled
    /\ agResp = JsonDict([queries |-> <<"sa">>])
    /\ agOut.result = Ret(<<agCall.user_query>>)

\* C13 as stated: for a non-empty prior feedback passed as context, the
\* prompt the planner sends to the model contains that feedback.
C13_PromptHoldsFeedback ==
    (PlannerCalled /\ agCall.context # "") => agCall.context \in agOut.prompt

\* C14: with an empty evidence list synthesize returns the fixed
\* no-information answer with confidence 0.0 and no sources and makes no
\* model call; with a non-empty list it makes exactly one model call.
C14_EmptyEvidenceNoCall ==
    SynthesiserCalled =>
        IF agCall.chunks = <<>>
        THEN agOut.result =
                [raised |-> FALSE, model_calls |-> 0,
                 value |-> [answer |-> NoInfoAnswer, sources |-> <<>>, confidence |-> 0]]
        ELSE agOut.result.model_calls = 1

C14_Witness ==
    /\ SynthesiserCalled
    /\ agCall.chunks = <<>>
    /\ agResp.kind = "raise"
    /\ agOut.result.value["answer"] = NoInfoAnswer

----------------------------------------------------------------------------
(* GCPClient.chat_completion: the retry loop around generate_content       *)

\* max_retries and base_delay (seconds)
MaxRetries == 5
BaseDelay == 5

RECURSIVE Pow2(_)
Pow2(n) == IF n = 0 THEN 1 ELSE 2 * Pow2(n - 1)

\* mutant: the delay grows linearly
WaitTime_linear(att) == BaseDelay * (att + 1)

\* wait_time = base_delay * (2 ** attempt)
WaitTime(att) == BaseDelay * Pow2(att)

\* what one generate_content call does: the text of the response, the
\* rate-limit error, or another error (of the service, or of response.text)
GenerateOutcomes ==
    {[kind |-> "text", v |-> a] : a \in Answers}
    \cup {[kind |-> "ResourceExhausted", v |-> "ResourceExhausted"]}
    \cup {[kind |-> "error", v |-> e] : e \in {"ServiceUnavailable", "ValueError"}}

\* mutant: every exception is retried
Retryable_any(o) == o.kind # "text"

\* except ResourceExhausted
Retryable(o) == o.kind = "ResourceExhausted"

\* the message lists passed, in OpenAI format
MessageLists ==
    { <<[role |-> "user", content |-> "p1"]>>,
      <<[role |-> "user", content |-> "p2"]>>,
      <<[role |-> "system", content |-> "s1"], [role |-> "user", content |-> "p1"]>>,
      <<[role |-> "assistant", content |-> "a1"], [role |-> "user", content |-> "p1"]>> }

\* lines 73-78: the prompt, as the list of the pieces concatenated
RECURSIVE ChatPrompt(_)
ChatPrompt(messages) ==
    IF messages = <<>> THEN <<>>
    ELSE LET msg == Head(messages) IN
         (IF msg.role = "system" THEN <<msg.content, "\n\n">>
          ELSE IF msg.role = "user" THEN <<msg.content>>
          ELSE <<>>) \o ChatPrompt(Tail(messages))

\* one pass of the try: generate_content and the except clauses
chat_generate ==
    /\ pc = "generate"
    /\ attempt <= MaxRetries
    /\ \E o \in GenerateOutcomes :
         /\ tries' = Append(tries, [kind |-> o.kind, v |-> o.v,
                                    prompt |-> ChatPrompt(chatMessages)])
         /\ IF o.kind = "text"
            THEN /\ chatOut' = Ret(o.v)
                 /\ pc' = "chat_returned"
            ELSE IF Retryable(o)
            THEN IF attempt = MaxRetries
                 THEN /\ chatOut' = Raise(o.v)
                      /\ pc' = "chat_raised"
                 ELSE /\ pc' = "sleep"
                      /\ UNCHANGED chatOut
            ELSE /\ chatOut' = Raise(o.v)
                 /\ pc' = "chat_raised"
    /\ UNCHANGED <<raisedBy, wfvars, resvars, rrvars, agvars, srvars, biasvars,
                   chatMessages, attempt, sleeps>>

\* time.sleep(wait_time), then the next value of the loop variable
chat_sleep ==
    /\ pc = "sleep"
    /\ sleeps' = Append(sleeps, WaitTime(attempt))
    /\ attempt' = attempt + 1
    /\ pc' = "generate"
    /\ UNCHANGED <<raisedBy, wfvars, resvars, rrvars, agvars, srvars, biasvars,
                   chatMessages, tries, chatOut>>

InitChat ==
    /\ pc = "generate"
    /\ chatMessages \in MessageLists
    /\ attempt = 0
    /\ tries = <<>>
    /\ sleeps = <<>>
    /\ chatOut = Ret("")
    /\ raisedBy = "none"
    /\ profile = [q \in QueryTexts |-> 1]
    /\ WfIdle /\ ResIdle /\ RrIdle /\ AgIdle /\ SrIdle /\ BiasIdle

NextChat == chat_generate \/ chat_sleep

\* the loop is sequential code: a step that can be taken is taken
SpecChat == InitChat /\ [][NextChat]_vars /\ WF_vars(NextChat)

ChatDone == pc \in {"chat_returned", "chat_raised"}

AllRateLimited(log) == \A k \in DOMAIN log : log[k].kind = "ResourceExhausted"

C16_Backoff ==
    /\ Len(tries) <= MaxRetries + 1
    /\ Len(sleeps) <= MaxRetries
    /\ \A k \in DOMAIN sleeps : sleeps[k] = <<5, 10, 20, 40, 80>>[k]
    /\ tries # <<>> => AllRateLimited(SubSeq(tries, 1, Len(tries) - 1))
    /\ pc = "chat_returned" =>
          /\ Last(tries).kind = "text"
          /\ chatOut = Ret(Last(tries).v)
          /\ Len(sleeps) = Len(tries) - 1
    /\ (pc = "chat_raised" /\ AllRateLimited(tries)) =>
          /\ Len(tries) = MaxRetries + 1
          /\ Len(sleeps) = MaxRetries
          /\ chatOut = Raise("ResourceExhausted")
    /\ (Len(tries) = MaxRetries + 1 /\ AllRateLimited(tries)) => pc = "chat_raised"

\* C16: under consecutive rate-limit errors chat_completion sleeps 5, 10, 20,
\* 40, 80 seconds between attempts, makes at most 5 retries after the first
\* attempt, returns the text of the first successful attempt, re-raises the
\* rate-limit error once the retries are exhausted, and always terminates.
C16_BoundedBackoffTerminates == []C16_Backoff /\ <>ChatDone

C16_Witness ==
    /\ pc = "chat_raised"
    /\ Len(tries) = 6
    /\ AllRateLimited(tries)
    /\ sleeps = <<5, 10, 20, 40, 80>>

\* C17: an error of the generation call that is not a rate-limit error is
\* re-raised at once: it is the last attempt, no sleep follows it, whatever
\* number of rate-limit retries came before.
C17_OtherErrorsRaiseAtOnce ==
    \A k \in DOMAIN tries :
        tries[k].kind = "error" =>
            /\ k = Len(tries)
            /\ pc = "chat_raised"
            /\ chatOut = Raise(tries[k].v)
            /\ Len(sleeps) = k - 1

C17_Witness ==
    /\ pc = "chat_raised"
    /\ Len(tries) = 3
    /\ tries[3].kind = "error"
    /\ Len(sleeps) = 2

----------------------------------------------------------------------------
(* HybridSearchEngine.search called on its own                             *)

\* largest top_k passed
MaxSearchK == 3

\* the source filters passed: none, the sources execute targets, and a
\* source no chunk of the index has
SourceFilters == {None, "blog"} \cup Range(target_sources)

search_call ==
    /\ pc = "search"
    /\ \E found \in SearchOutcomes(profile, srQuery, srTopK, srFilter) :
         srOut' = IF found.raised THEN found
                  ELSE Merge(found, [scores |->
                                 SearchScores(profile, srQuery, srFilter)])
    /\ pc' = "searched"
    /\ UNCHANGED <<raisedBy, wfvars, resvars, rrvars, agvars, chatvars,
                   srQuery, srTopK, srFilter, biasvars>>

InitSearch ==
    /\ pc = "search"
    \* profile 0 is a query that shares no term with any chunk
    /\ profile \in {[q \in QueryTexts |-> p] : p \in 0..NumProfiles}
    /\ srQuery \in SubQueryTexts
    /\ srTopK \in 0..MaxSearchK
    /\ srFilter \in SourceFilters
    /\ srOut = Ret(<<>>)
    /\ raisedBy = "none"
    /\ sub_queries = <<>>
    /\ qi = 0
    /\ si = 0
    /\ sub_query_results = <<>>
    /\ all_results = <<>>
    /\ pools = <<>>
    /\ WfIdle /\ RrIdle /\ AgIdle /\ ChatIdle /\ BiasIdle

NextSearch == search_call

SpecSearch == InitSearch /\ [][NextSearch]_vars

\* C20: a search called with a source filter raises only when the embedding
\* or index call fails; every fragment it returns has data_source_type equal
\* to the filter, and when no chunk of the index has that source it returns
\* the empty list.
C20_FilterRespected ==
    (pc = "searched" /\ srFilter # None) =>
        IF srOut.raised THEN srOut.exc = "ConnectionError"
        ELSE /\ \A k \in DOMAIN srOut.value : srOut.value[k]["source"] = srFilter
             /\ (\A i \in ChunkIds : SourceOf(i) # srFilter) => srOut.value = <<>>

C20_Witness ==
    /\ pc = "searched"
    /\ srFilter = "sec"
    /\ ~srOut.raised
    /\ Len(srOut.value) = 2
    /\ \E i \in ChunkIds : SourceOf(i) # "sec"

\* a search that returned
SearchReturned == pc = "searched" /\ ~srOut.raised

\* the chunks the search scored: those that pass the source filter
Batch == {i \in ChunkIds : srFilter = None \/ SourceOf(i) = srFilter}

\* the best raw semantic score of the scored chunks
BatchMaxSem == SetMax({Sem(profile, srQuery, i) : i \in Batch})

CorpusBm == {Bm(profile, srQuery, j) : j \in ChunkIds}

\* the raw lexical scores of the chunks that pass the source filter
BatchBm == {Bm(profile, srQuery, j) : j \in Batch}

\* C22: the normalised lexical score of every scored chunk lies in [0,1] and
\* is taken relative to the smallest and largest raw lexical score over the
\* whole corpus for the query, whatever the source filter: a chunk with the
\* corpus maximum gets 1, one with the corpus minimum gets 0, and when all
\* chunks of the corpus have the same raw score every chunk gets 0.5.
C22_LexicalNormalisedOverCorpus ==
    SearchReturned =>
        \A i \in DOMAIN srOut.scores :
            LET sc == srOut.scores[i]
            IN /\ sc.kw_score = Bm(profile, srQuery, i)
               /\ sc.kw_score_norm \in 0..ONE
               /\ IF Cardinality(CorpusBm) = 1
                    THEN sc.kw_score_norm = ONE \div 2
                    ELSE /\ sc.kw_score = SetMax(CorpusBm) => sc.kw_score_norm = ONE
                         /\ sc.kw_score = SetMin(CorpusBm) => sc.kw_score_norm = 0

C22_Witness ==
    /\ SearchReturned
    /\ srFilter # None
    /\ Batch # ChunkIds
    /\ Cardinality(CorpusBm) > 1
    /\ SetMin(CorpusBm) > 0
    /\ \E i, j \in DOMAIN srOut.scores :
         /\ srOut.scores[i].kw_score_norm = ONE
         /\ srOut.scores[j].kw_score_norm = 0

\* C22 as first stated: the normalisation is relative to the scored
\* (source-filtered) batch.
C22_LexicalNormalisedOverBatch ==
    SearchReturned =>
        \A i \in DOMAIN srOut.scores :
            LET sc == srOut.scores[i]
            IN /\ sc.kw_score_norm \in 0..ONE
               /\ IF Cardinality(BatchBm) = 1
                    THEN sc.kw_score_norm = ONE \div 2
                    ELSE /\ sc.kw_score = SetMax(BatchBm) => sc.kw_score_norm = ONE
                         /\ sc.kw_score = 0 => sc.kw_score_norm = 0

\* the ranked_indices list a rankable response carries
RankedInts == rerankResp.dict["ranked_indices"].ints

\* the candidates the ranking names: the valid indices among ranked_indices
RankedSet == Range(RankedInts) \cap (0..(Len(rrCandidates) - 1))

\* rerank returned a list built from a parsed ranking
RankingApplied ==
    /\ pc = "reranked"
    /\ rrCandidates # <<>>
    /\ ~NotRankable(rerankResp)

\* C23 as stated: after a parsed ranking the candidate at output position k
\* (from 0) among the ranked ones carries rerank_score 1.0 - 0.01 * k, and
\* the candidates the ranking omits follow with rerank_score 0.0, the least
\* score of the output.
C23_ScoreReflectsRank ==
    RankingApplied =>
        \A p \in DOMAIN rerankOut.value :
            /\ rerankOut.value[p]["rerank_score"]
                 = IF p <= Cardinality(RankedSet)
                   THEN ONE - (p - 1) * RankStep ELSE 0
            /\ rerankOut.value[p]["rerank_score"] >= 0

\* C29 as stated: rerank returns exactly min(top_k, n) entries, each one of
\* the n input candidates and none of them twice, whatever indices the
\* ranking repeats or names out of range.
C29_RerankReturnsDistinctCandidates ==
    pc = "reranked" =>
        /\ Len(rerankOut.value) = Min2(rrTopK, Len(rrCandidates))
        /\ \A p \in DOMAIN rerankOut.value :
             \E k \in DOMAIN rrCandidates :
                 Without(rerankOut.value[p], "rerank_score") = rrCandidates[k]
        /\ NoDuplicateIds(rerankOut.value)

\* execute called with a single sub-query: one merge, one de-duplication
InitMerge ==
    /\ InitResearch
    /\ Len(sub_queries) = 1

SpecMerge == InitMerge /\ [][NextResearch]_vars

\* the chunk ids a result list holds
IdsOf(list) == {list[k]["chunk_id"] : k \in DOMAIN list}

----------------------------------------------------------------------------
(* The bias adjustment of one reranked pool and the score sync after it    *)
(* (researcher_agent.py lines 57-63)                                       *)

\* longest reranked pool passed to the adjustment
MaxPool == 3

\* final scores a candidate of the pool can carry: 0.0, 0.3 and 0.97
PoolScores == {0, 3000, 9700}

\* the company of a candidate, or None when its metadata names none
PoolGroups == {"A", "B", None}

\* a reranked candidate at position k of the pool
PoolCandidate(k, g, sc) ==
    LET c == [chunk_id |-> k, final_score |-> sc,
              rerank_score |-> ONE - (k - 1) * RankStep]
    IN IF g = None THEN c ELSE Put(c, "company", g)

RerankedPools ==
    UNION {{[k \in 1..n |-> PoolCandidate(k, gs[k], ss[k])] :
               gs \in [1..n -> PoolGroups], ss \in [1..n -> PoolScores]} :
           n \in 0..MaxPool}

bias_adjust ==
    /\ pc = "bias"
    /\ biasOut' = SyncBoosted(adjust_scores_by_metadata(biasIn))
    /\ pc' = "adjusted"
    /\ UNCHANGED <<raisedBy, wfvars, resvars, rrvars, agvars, chatvars, srvars,
                   biasIn>>

InitBias ==
    /\ pc = "bias"
    /\ biasIn \in RerankedPools
    /\ biasOut = <<>>
    /\ raisedBy = "none"
    /\ profile = [q \in QueryTexts |-> 1]
    /\ WfIdle /\ ResIdle /\ RrIdle /\ AgIdle /\ ChatIdle /\ SrIdle

NextBias == bias_adjust

SpecBias == InitBias /\ [][NextBias]_vars

\* the candidates of the pool that belong to company g
OfCompany(g) == {k \in DOMAIN biasIn : Get(biasIn[k], "company", None) = g}

\* the total of the final scores of a set of candidates of the pool
RECURSIVE TotalScore(_)
TotalScore(K) ==
    IF K = {} THEN 0
    ELSE LET k == CHOOSE x \in K : TRUE
         IN biasIn[k]["final_score"] + TotalScore(K \ {k})

\* candidate k belongs to a known group whose average score is below 0.4
InUnderThresholdGroup(k) ==
    LET g == Get(biasIn[k], "company", None)
    IN /\ g # None
       /\ TotalScore(OfCompany(g)) < BiasThreshold * Cardinality(OfCompany(g))

\* C25: a candidate of a known group whose average score is below the
\* threshold leaves the adjustment with final_score = min(score * 1.05, 1.0),
\* and the rerank_score synced from it equals that value, so neither exceeds
\* 1.0; every other candidate is left as it was.
C25_BoostCapped ==
    pc = "adjusted" =>
        /\ Len(biasOut) = Len(biasIn)
        /\ \A k \in DOMAIN biasIn :
             IF InUnderThresholdGroup(k)
             THEN /\ biasOut[k]["final_score"]
                       = Min2((biasIn[k]["final_score"] * 105) \div 100, ONE)
                  /\ biasOut[k]["final_score"] <= ONE
                  /\ biasOut[k]["rerank_score"] = biasOut[k]["final_score"]
                  /\ biasOut[k]["rerank_score"] <= ONE
             ELSE biasOut[k] = biasIn[k]

C25_Witness ==
    /\ pc = "adjusted"
    /\ \E k \in DOMAIN biasIn :
         /\ InUnderThresholdGroup(k)
         /\ biasIn[k]["final_score"] = 9700
         /\ biasOut[k]["final_score"] = ONE
         /\ biasOut[k]["rerank_score"] = ONE
         /\ biasIn[k]["rerank_score"] < ONE

----------------------------------------------------------------------------
(* Further properties of the workflow and of the agents                    *)

C27_SynthesisHasConfidence ==
    (SynthesiserCalled /\ ~agOut.result.raised) =>
        {"answer", "sources", "confidence"} \subseteq DOMAIN agOut.result.value

\* C28 as stated: whatever the query and the model's response, a planner
\* call that returns gives a list of 1 to 10 strings.
C28_PlannerReturnsOneToTen ==
    (PlannerCalled /\ ~agOut.result.raised) =>
        /\ Len(agOut.result.value) \in 1..10
        /\ \A k \in DOMAIN agOut.result.value :
             agOut.result.value[k] \in QueryTexts

\* the Evaluate executions that returned so far in the run
EvaluationsCompleted == Len(evalLog)

====
